---- MODULE Spec2Model ----
(***************************************************************************)
(* A model of watermark/scripts/batch.py: the anchored placement           *)
(* arithmetic (position_xy), opacity parsing (parse_opacity), the tiling   *)
(* loop of process_image with paste_rgba_clip, and the batch driver main   *)
(* with iter_images and process_image.                                     *)
(***************************************************************************)
EXTENDS Integers, Sequences, FiniteSets, TLC

VARIABLES
    \* ---- position_xy: the call's arguments and its result
    img_w, img_h, text_w, text_h, pos, margin, xy,
    \* ---- main: the parsed arguments (args.*) and the input folder
    input_dir, color, stroke_color, rel_size, font_size, stroke_width, tile,
    recursive, probe_w, folder,
    \* ---- main: its locals, its position and what it has done so far
    pc, rgb, stroke_rgb, it, src, exc, processed, attempted, open_handles,
    opened, saved, failed, exit_code, report, font, fill_rgba, stroke_rgba, layer,
    \* ---- parse_opacity as main calls it (lines 390-392)
    opacity, tile_opacity, alpha, tile_alpha,
    \* ---- the tiling branch of process_image (lines 243-271)
    tsize, tile_spacing, tile_spacing_x, tile_spacing_y,
    tile_offset_x, tile_offset_y, canvas, step, start, x, y, overlay, pastes, tpc

posVars  == <<img_w, img_h, text_w, text_h, pos, margin, xy>>
opVars   == <<opacity, tile_opacity, alpha, tile_alpha>>
argVars  == <<input_dir, color, stroke_color, rel_size, font_size, stroke_width,
              tile, recursive, probe_w, folder>>
runVars  == <<pc, rgb, stroke_rgb, it, src, exc, processed, attempted,
              open_handles, opened, saved, failed, exit_code, report>>
jobVars  == <<font, fill_rgba, stroke_rgba, layer>>
tileVars == <<tsize, tile_spacing, tile_spacing_x, tile_spacing_y,
              tile_offset_x, tile_offset_y, canvas, step, start, x, y,
              overlay, pastes, tpc>>
vars == <<posVars, opVars, argVars, runVars, jobVars, tileVars>>

\* An Optional value: None, or Some(v) whose value is Val(o).
None    == <<>>
Some(v) == <<v>>
Val(o)  == o[1]

(***************************************************************************)
(* Bounds of the model.                                                    *)
(***************************************************************************)
MaxDim    == 3    \* image and text box sides range over 0..MaxDim (and the spec's example)
MaxMargin == 4    \* margins range over -1..MaxMargin
MaxFiles  == 3    \* the input folder holds at most MaxFiles entries
MaxOut    == 3    \* opacity values reach MaxOut steps outside [0, 1] and [0, 100]
MaxBox    == 1    \* the text's bounding box sides range over 0..MaxBox
MaxCanvas == 6    \* the canvas sides range over 1..MaxCanvas

(***************************************************************************)
(* Python arithmetic.                                                      *)
(***************************************************************************)
Max(a, b) == IF a >= b THEN a ELSE b
Min(a, b) == IF a <= b THEN a ELSE b

\* a // b for b # 0: the floor of the quotient, whatever the signs.
FloorDivPos(a, b) == IF a >= 0 THEN a \div b ELSE -((-a + b - 1) \div b)
FloorDiv(a, b) == IF b > 0 THEN FloorDivPos(a, b) ELSE FloorDivPos(-a, -b)

\* int(round(num / den)) for den > 0: round half to even.
RoundHalfEven(num, den) ==
    LET q == FloorDiv(num, den)
        r == num - q * den
    IN IF 2 * r > den \/ (2 * r = den /\ q % 2 = 1) THEN q + 1 ELSE q

(***************************************************************************)
(* Strings are sequences of one-character strings, so that str.lower and   *)
(* str.replace act on them as they do in Python.                           *)
(***************************************************************************)
UpperChars == <<"A","B","C","D","E","F","G","H","I","J","K","L","M",
                "N","O","P","Q","R","S","T","U","V","W","X","Y","Z">>
LowerChars == <<"a","b","c","d","e","f","g","h","i","j","k","l","m",
                "n","o","p","q","r","s","t","u","v","w","x","y","z">>

LowerChar(c) ==
    IF \E i \in 1..Len(UpperChars) : UpperChars[i] = c
    THEN LowerChars[CHOOSE i \in 1..Len(UpperChars) : UpperChars[i] = c]
    ELSE c

\* s.lower()
lower(s) == [i \in 1..Len(s) |-> LowerChar(s[i])]

\* s.replace(" ", "-")
replace_space(s) == [i \in 1..Len(s) |-> IF s[i] = " " THEN "-" ELSE s[i]]

K_center       == <<"c","e","n","t","e","r">>
K_centered     == <<"c","e","n","t","e","r","e","d">>
K_top_left     == <<"t","o","p","-","l","e","f","t">>
K_top_right    == <<"t","o","p","-","r","i","g","h","t">>
K_bottom_left  == <<"b","o","t","t","o","m","-","l","e","f","t">>
K_bottom_right == <<"b","o","t","t","o","m","-","r","i","g","h","t">>
K_top          == <<"t","o","p">>
K_bottom       == <<"b","o","t","t","o","m">>
K_left         == <<"l","e","f","t">>
K_right        == <<"r","i","g","h","t">>

\* The keys of the dict `choices`.
ChoiceKeys == {K_center, K_top_left, K_top_right, K_bottom_left, K_bottom_right,
               K_top, K_bottom, K_left, K_right}

(***************************************************************************)
(* position_xy (batch.py 96-114).                                          *)
(***************************************************************************)
\* pos.lower().replace(" ", "-"), then {"centered": "center"}.get(pos_key, pos_key)
pos_key(p) ==
    LET k == replace_space(lower(p))
    IN IF k = K_centered THEN K_center ELSE k

\* margin = max(0, int(margin))
clamp_margin(m) == Max(0, m)

\* The dict `choices`, as a function of its key.
choices(iw, ih, tw, th, m, k) ==
    CASE k = K_center       -> <<FloorDiv(iw - tw, 2), FloorDiv(ih - th, 2)>>
      [] k = K_top_left     -> <<m, m>>
      [] k = K_top_right    -> <<iw - tw - m, m>>
      [] k = K_bottom_left  -> <<m, ih - th - m>>
      [] k = K_bottom_right -> <<iw - tw - m, ih - th - m>>
      [] k = K_top          -> <<FloorDiv(iw - tw, 2), m>>
      [] k = K_bottom       -> <<FloorDiv(iw - tw, 2), ih - th - m>>
      [] k = K_left         -> <<m, FloorDiv(ih - th, 2)>>
      [] k = K_right        -> <<iw - tw - m, FloorDiv(ih - th, 2)>>

\* choices.get(pos_key, choices["bottom-right"]): the coordinate before clamping.
unclamped_xy(iw, ih, tw, th, p, m0) ==
    LET m == clamp_margin(m0)
        k == pos_key(p)
    IN IF k \in ChoiceKeys THEN choices(iw, ih, tw, th, m, k)
                           ELSE choices(iw, ih, tw, th, m, K_bottom_right)

\* A clamp that forgets the lower bound 0 (used to test the claims below).
clamp_NoFloor(v, hi) == Min(v, hi)

\* max(0, min(v, hi))
clamp(v, hi) == Max(0, Min(v, hi))

\* A keyword lookup that falls back to top-left (used to test the claims below).
position_xy_FallbackTopLeft(iw, ih, tw, th, p, m0) ==
    LET k == pos_key(p)
        u == IF k \in ChoiceKeys THEN choices(iw, ih, tw, th, clamp_margin(m0), k)
                                 ELSE choices(iw, ih, tw, th, clamp_margin(m0), K_top_left)
    IN <<clamp(u[1], iw - tw), clamp(u[2], ih - th)>>

position_xy(iw, ih, tw, th, p, m0) ==
    LET u == unclamped_xy(iw, ih, tw, th, p, m0)
    IN <<clamp(u[1], iw - tw), clamp(u[2], ih - th)>>

\* The inputs of the position specification.
ImgDims   == (0..MaxDim) \cup {1000}
TextWs    == (0..MaxDim) \cup {200}
TextHs    == (0..MaxDim) \cup {50}
Margins   == -1..MaxMargin
Keywords  == ChoiceKeys \cup
             { K_centered,
               <<"C","e","n","t","e","r","e","d">>,
               <<"T","o","p"," ","L","e","f","t">>,
               <<"B","O","T","T","O","M">>,
               <<"m","i","d","d","l","e">>,
               <<>> }

NoResult == <<>>
NoFont   == [by |-> "none", size |-> 0]
NoReport == [kind |-> "none", n |-> 0]

PosIdle == /\ img_w = 0 /\ img_h = 0 /\ text_w = 0 /\ text_h = 0
           /\ pos = <<>> /\ margin = 0 /\ xy = NoResult
MainIdle ==
    /\ opacity = 0 /\ tile_opacity = None /\ alpha = None /\ tile_alpha = None
    /\ input_dir = "dir" /\ color = "#FFFFFF" /\ stroke_color = None
    /\ rel_size = None /\ font_size = None /\ stroke_width = 0 /\ tile = FALSE
    /\ recursive = FALSE /\ probe_w = 0 /\ folder = <<>>
    /\ pc = "idle" /\ rgb = None /\ stroke_rgb = None /\ it = 0 /\ src = 0
    /\ exc = FALSE /\ processed = 0 /\ attempted = <<>> /\ open_handles = {}
    /\ opened = {} /\ saved = {} /\ failed = {} /\ exit_code = None
    /\ report = NoReport /\ font = NoFont /\ fill_rgba = None /\ stroke_rgba = None
    /\ layer = "none"
TileIdle == /\ tsize = <<0, 0>> /\ tile_spacing = 0 /\ tile_spacing_x = None
            /\ tile_spacing_y = None /\ tile_offset_x = 0 /\ tile_offset_y = 0
            /\ canvas = <<0, 0>> /\ step = <<0, 0>> /\ start = <<0, 0>>
            /\ x = 0 /\ y = 0 /\ overlay = {} /\ pastes = 0 /\ tpc = "idle"

\* The arguments are drawn from the bounded sets; position_xy has not been called.
InitPosition ==
    /\ img_w \in ImgDims /\ img_h \in ImgDims
    /\ text_w \in TextWs /\ text_h \in TextHs
    /\ pos \in Keywords /\ margin \in Margins
    /\ xy = NoResult
    /\ MainIdle /\ TileIdle

\* A call of position_xy with the chosen arguments.
CallPositionXY ==
    /\ xy = NoResult
    /\ xy' = position_xy(img_w, img_h, text_w, text_h, pos, margin)
    /\ UNCHANGED <<img_w, img_h, text_w, text_h, pos, margin,
                   opVars, argVars, runVars, jobVars, tileVars>>

NextPosition == CallPositionXY

SpecPosition == InitPosition /\ [][NextPosition]_vars

(***************************************************************************)
(* parse_opacity (batch.py 57-63).  A float value v is held as the integer *)
(* 1000 * v (thousandths), so 0.35 is 350 and 35 is 35000.                 *)
(***************************************************************************)
\* A parse_opacity whose fraction branch excludes 1.0 (used to test the claims below).
parse_opacity_StrictOne(value) ==
    IF value < 1000
    THEN RoundHalfEven(Min(Max(value, 0), 1000) * 255, 1000)
    ELSE RoundHalfEven(Min(Max(value, 0), 100000) * 255, 100000)

parse_opacity(value) ==
    IF value <= 1000
    THEN \* frac = min(max(value, 0.0), 1.0); int(round(frac * 255))
         RoundHalfEven(Min(Max(value, 0), 1000) * 255, 1000)
    ELSE \* pct = min(max(value, 0.0), 100.0); int(round((pct / 100.0) * 255))
         RoundHalfEven(Min(Max(value, 0), 100000) * 255, 100000)

(***************************************************************************)
(* parse_color (batch.py 65-66): ImageColor.getrgb on the strings the      *)
(* model uses; <<"ValueError">> stands for the exception it raises.        *)
(***************************************************************************)
parse_color(value) ==
    CASE value = "#FFFFFF" -> <<255, 255, 255>>
      [] value = "red"     -> <<255, 0, 0>>
      [] value = "black"   -> <<0, 0, 0>>
      [] OTHER             -> <<"ValueError">>

raises_ValueError(c) == Len(c) = 1

(***************************************************************************)
(* iter_images (batch.py 316-320) over the entries of the input folder.    *)
(* An entry is [suffix, is_file, fault, width]: the suffix of its name,    *)
(* whether it is a regular file, where processing it fails ("ok": nowhere, *)
(* "open": Image.open raises, "save": an exception inside the with block)  *)
(* and the width of its image.                                             *)
(***************************************************************************)
SUPPORTED_EXTS == { <<".","j","p","g">>, <<".","j","p","e","g">>, <<".","p","n","g">>,
                    <<".","w","e","b","p">>, <<".","t","i","f">>,
                    <<".","t","i","f","f">>, <<".","b","m","p">> }

\* A filter that forgets the extension test (used to test the claims below).
yields_AnyExtension(e, rec) == IF rec THEN TRUE ELSE e.is_file

\* Whether iter_images yields entry e: rglob("*") filtered by suffix when recursive,
\* iterdir() filtered by is_file() and suffix otherwise.
yields(e, rec) ==
    IF rec THEN lower(e.suffix) \in SUPPORTED_EXTS
           ELSE e.is_file /\ lower(e.suffix) \in SUPPORTED_EXTS

\* The index of the next entry after position i that iter_images yields, 0 if none.
next_image(f, rec, i) ==
    IF \E j \in (i + 1)..Len(f) : yields(f[j], rec)
    THEN CHOOSE j \in (i + 1)..Len(f) :
            /\ yields(f[j], rec)
            /\ \A k \in (i + 1)..(j - 1) : ~yields(f[k], rec)
    ELSE 0

(***************************************************************************)
(* process_image (batch.py 187-314): the font and the colours it composes. *)
(***************************************************************************)
provisional_size == 100
default_size     == 48

\* compute_font_for_relative_width (77-94): w is the width measured at the
\* provisional size, fraction is in thousandths.
compute_font_for_relative_width(fraction, image_width, w) ==
    IF w = 0 THEN provisional_size
    ELSE LET target_width == Max(1, RoundHalfEven(fraction * image_width, 1000))
         IN Max(1, RoundHalfEven(provisional_size * target_width, w))

\* Lines 219-229: the size of the font process_image loads.
font_for(rel, fsize, image_width, w) ==
    IF rel # None
    THEN [by |-> "rel_size",
          size |-> compute_font_for_relative_width(Val(rel), image_width, w)]
    ELSE IF fsize # None THEN [by |-> "font_size", size |-> Val(fsize)]
                         ELSE [by |-> "default", size |-> default_size]

\* Line 235.
effective_alpha(talpha, a) == IF talpha # None THEN Val(talpha) ELSE a

\* Lines 236-241.
compose_fill(c, ea) == <<c[1], c[2], c[3], ea>>
compose_stroke(sw, sc, ea) ==
    IF sw > 0
    THEN LET c == IF sc # None THEN sc ELSE <<0, 0, 0>> IN <<c[1], c[2], c[3], ea>>
    ELSE None

(***************************************************************************)
(* main (batch.py 329-437), one action per statement group.                *)
(***************************************************************************)
mainFrame == <<posVars, argVars, tileVars, opacity, tile_opacity>>

\* 371-373
CheckInputDir ==
    /\ pc = "check_input"
    /\ IF input_dir # "dir"
       THEN /\ exit_code' = Some(1) /\ pc' = "exited"
       ELSE /\ exit_code' = exit_code /\ pc' = "parse_color"
    /\ UNCHANGED <<mainFrame, jobVars, alpha, tile_alpha, rgb, stroke_rgb, it, src, exc,
                   processed, attempted, open_handles, opened, saved, failed, report>>

\* 375-379
ParseColor ==
    /\ pc = "parse_color"
    /\ IF raises_ValueError(parse_color(color))
       THEN /\ exit_code' = Some(1) /\ pc' = "exited" /\ rgb' = rgb
       ELSE /\ exit_code' = exit_code /\ pc' = "parse_stroke" /\ rgb' = parse_color(color)
    /\ UNCHANGED <<mainFrame, jobVars, alpha, tile_alpha, stroke_rgb, it, src, exc,
                   processed, attempted, open_handles, opened, saved, failed, report>>

\* 381-388: `if args.stroke_color:` is false for None and for the empty string.
ParseStrokeColor ==
    /\ pc = "parse_stroke"
    /\ IF stroke_color # None /\ Val(stroke_color) # ""
       THEN IF raises_ValueError(parse_color(Val(stroke_color)))
            THEN /\ exit_code' = Some(1) /\ pc' = "exited" /\ stroke_rgb' = stroke_rgb
            ELSE /\ exit_code' = exit_code /\ pc' = "parse_opacity"
                 /\ stroke_rgb' = parse_color(Val(stroke_color))
       ELSE /\ exit_code' = exit_code /\ pc' = "parse_opacity" /\ stroke_rgb' = None
    /\ UNCHANGED <<mainFrame, jobVars, alpha, tile_alpha, rgb, it, src, exc,
                   processed, attempted, open_handles, opened, saved, failed, report>>

\* 390
ParseOpacity ==
    /\ pc = "parse_opacity"
    /\ alpha' = Some(parse_opacity(opacity))
    /\ pc' = "parse_tile_opacity"
    /\ UNCHANGED <<mainFrame, jobVars, tile_alpha, rgb, stroke_rgb, it, src, exc, processed,
                   attempted, open_handles, opened, saved, failed, exit_code, report>>

\* 392
ParseTileOpacity ==
    /\ pc = "parse_tile_opacity"
    /\ tile_alpha' = IF tile_opacity # None THEN Some(parse_opacity(Val(tile_opacity)))
                                            ELSE None
    /\ pc' = "check_rel"
    /\ UNCHANGED <<mainFrame, jobVars, alpha, rgb, stroke_rgb, it, src, exc, processed,
                   attempted, open_handles, opened, saved, failed, exit_code, report>>

\* A check that lets a relative size of 0 through (used to test the claims below).
CheckRelSize_AllowZero ==
    /\ pc = "check_rel"
    /\ IF rel_size # None /\ Val(rel_size) < 0
       THEN /\ exit_code' = Some(1) /\ pc' = "exited"
       ELSE /\ exit_code' = exit_code /\ pc' = "check_spacing"
    /\ UNCHANGED <<mainFrame, jobVars, alpha, tile_alpha, rgb, stroke_rgb, it, src, exc,
                   processed, attempted, open_handles, opened, saved, failed, report>>

\* 394-396
CheckRelSize ==
    /\ pc = "check_rel"
    /\ IF rel_size # None /\ Val(rel_size) <= 0
       THEN /\ exit_code' = Some(1) /\ pc' = "exited"
       ELSE /\ exit_code' = exit_code /\ pc' = "check_spacing"
    /\ UNCHANGED <<mainFrame, jobVars, alpha, tile_alpha, rgb, stroke_rgb, it, src, exc,
                   processed, attempted, open_handles, opened, saved, failed, report>>

\* 398-402
CheckTileSpacing ==
    /\ pc = "check_spacing"
    /\ IF tile /\ (\/ tile_spacing < 0
                   \/ (tile_spacing_x # None /\ Val(tile_spacing_x) < 0)
                   \/ (tile_spacing_y # None /\ Val(tile_spacing_y) < 0))
       THEN /\ exit_code' = Some(1) /\ pc' = "exited" /\ processed' = processed
       ELSE /\ exit_code' = exit_code /\ pc' = "loop" /\ processed' = 0
    /\ UNCHANGED <<mainFrame, jobVars, alpha, tile_alpha, rgb, stroke_rgb, it, src, exc,
                   attempted, open_handles, opened, saved, failed, report>>

\* 403-404: the for statement takes the next path from iter_images.
IterImages ==
    /\ pc = "loop"
    /\ LET j == next_image(folder, recursive, it)
       IN IF j = 0
          THEN /\ pc' = "summary" /\ it' = Len(folder) /\ src' = src
               /\ attempted' = attempted
          ELSE /\ pc' = "open" /\ it' = j /\ src' = j
               /\ attempted' = Append(attempted, j)
    /\ UNCHANGED <<mainFrame, jobVars, alpha, tile_alpha, rgb, stroke_rgb, exc, processed,
                   open_handles, opened, saved, failed, exit_code, report>>

\* 211: Image.open(in_path) raises for a directory or an unreadable image.
OpenImage ==
    /\ pc = "open"
    /\ IF ~folder[src].is_file \/ folder[src].fault = "open"
       THEN /\ pc' = "except" /\ exc' = TRUE
            /\ UNCHANGED <<open_handles, opened>>
       ELSE /\ pc' = "with_body" /\ exc' = FALSE
            /\ open_handles' = open_handles \cup {src}
            /\ opened' = opened \cup {src}
    /\ UNCHANGED <<mainFrame, jobVars, alpha, tile_alpha, rgb, stroke_rgb, it, src, processed,
                   attempted, saved, failed, exit_code, report>>

\* 212-314: the body of the with block, up to final.save.
WithBody ==
    /\ pc = "with_body"
    /\ font' = font_for(rel_size, font_size, folder[src].width, probe_w)
    /\ LET ea == effective_alpha(tile_alpha, Val(alpha))
       IN /\ fill_rgba' = compose_fill(rgb, ea)
          /\ stroke_rgba' = compose_stroke(stroke_width, stroke_rgb, ea)
    /\ layer' = IF tile THEN "tiled" ELSE "anchored"
    /\ IF folder[src].fault = "save"
       THEN /\ exc' = TRUE /\ saved' = saved
       ELSE /\ exc' = FALSE /\ saved' = saved \cup {src}
    /\ pc' = "with_exit"
    /\ UNCHANGED <<mainFrame, alpha, tile_alpha, rgb, stroke_rgb, it, src, processed,
                   attempted, open_handles, opened, failed, exit_code, report>>

\* A with block that skips the release when an exception passes through it
\* (used to test the claims below).
WithExit_LeakOnError ==
    /\ pc = "with_exit"
    /\ open_handles' = IF exc THEN open_handles ELSE open_handles \ {src}
    /\ pc' = IF exc THEN "except" ELSE "ok"
    /\ UNCHANGED <<mainFrame, jobVars, alpha, tile_alpha, rgb, stroke_rgb, it, src, exc,
                   processed, attempted, opened, saved, failed, exit_code, report>>

\* 211, leaving the with block: im0 is closed, with or without an exception.
WithExit ==
    /\ pc = "with_exit"
    /\ open_handles' = open_handles \ {src}
    /\ pc' = IF exc THEN "except" ELSE "ok"
    /\ UNCHANGED <<mainFrame, jobVars, alpha, tile_alpha, rgb, stroke_rgb, it, src, exc,
                   processed, attempted, opened, saved, failed, exit_code, report>>

\* 429-430
CountProcessed ==
    /\ pc = "ok"
    /\ processed' = processed + 1
    /\ pc' = "loop"
    /\ UNCHANGED <<mainFrame, jobVars, alpha, tile_alpha, rgb, stroke_rgb, it, src, exc,
                   attempted, open_handles, opened, saved, failed, exit_code, report>>

\* An except clause that re-raises (used to test the claims below).
LogFailure_Reraise ==
    /\ pc = "except"
    /\ failed' = failed \cup {src}
    /\ exit_code' = Some(1)
    /\ pc' = "exited"
    /\ UNCHANGED <<mainFrame, jobVars, alpha, tile_alpha, rgb, stroke_rgb, it, src, exc,
                   processed, attempted, open_handles, opened, saved, report>>

\* 431-432: except Exception: print the failure to stderr; the loop goes on.
LogFailure ==
    /\ pc = "except"
    /\ failed' = failed \cup {src}
    /\ exc' = FALSE
    /\ pc' = "loop"
    /\ UNCHANGED <<mainFrame, jobVars, alpha, tile_alpha, rgb, stroke_rgb, it, src,
                   processed, attempted, open_handles, opened, saved, exit_code, report>>

\* 434-437, and the normal end of the script.
Summary ==
    /\ pc = "summary"
    /\ report' = IF processed = 0 THEN [kind |-> "warn", n |-> 0]
                                   ELSE [kind |-> "done", n |-> processed]
    /\ exit_code' = Some(0)
    /\ pc' = "done"
    /\ UNCHANGED <<mainFrame, jobVars, alpha, tile_alpha, rgb, stroke_rgb, it, src, exc,
                   processed, attempted, open_handles, opened, saved, failed>>

NextMain ==
    \/ CheckInputDir \/ ParseColor \/ ParseStrokeColor \/ ParseOpacity
    \/ ParseTileOpacity \/ CheckRelSize \/ CheckTileSpacing
    \/ IterImages \/ OpenImage \/ WithBody \/ WithExit
    \/ CountProcessed \/ LogFailure \/ Summary

(***************************************************************************)
(* The inputs of main.                                                     *)
(***************************************************************************)
Entry(sfx, isf, flt) == [suffix |-> sfx, is_file |-> isf, fault |-> flt, width |-> 800]

E_jpg      == Entry(<<".","j","p","g">>, TRUE, "ok")
E_PNG_bad  == Entry(<<".","P","N","G">>, TRUE, "open")
E_webp_bad == Entry(<<".","w","e","b","p">>, TRUE, "save")
E_txt      == Entry(<<".","t","x","t">>, TRUE, "ok")
E_dir_jpeg == Entry(<<".","j","p","e","g">>, FALSE, "ok")

EntryKinds == {E_jpg, E_PNG_bad, E_webp_bad, E_txt, E_dir_jpeg}

\* Every listing of at most n entries.
Folders(n) == UNION {[1..k -> EntryKinds] : k \in 0..n}

\* Opacity values in thousandths: every fraction 0.000..1.000, and values
\* below 0, between 1 and 100, and above 100.
OpacityValues ==
    (0..1000) \cup {-250 * k : k \in 1..MaxOut}
              \cup {1000 + 250 * k : k \in 1..MaxOut}
              \cup {100000 + 250 * k : k \in 1..MaxOut}

RunStart ==
    /\ pc = "check_input" /\ rgb = None /\ stroke_rgb = None /\ it = 0 /\ src = 0
    /\ exc = FALSE /\ processed = 0 /\ attempted = <<>> /\ open_handles = {}
    /\ opened = {} /\ saved = {} /\ failed = {} /\ exit_code = None
    /\ report = NoReport /\ font = NoFont /\ fill_rgba = None /\ stroke_rgba = None
    /\ layer = "none" /\ alpha = None /\ tile_alpha = None

\* What the tiling arguments are when the command line does not give them (358-363).
TileArgsDefault ==
    /\ tile_spacing = 64 /\ tile_spacing_x = None /\ tile_spacing_y = None
    /\ tile_offset_x = 0 /\ tile_offset_y = 0

TileLoopIdle ==
    /\ tsize = <<0, 0>> /\ canvas = <<0, 0>> /\ step = <<0, 0>> /\ start = <<0, 0>>
    /\ x = 0 /\ y = 0 /\ overlay = {} /\ pastes = 0 /\ tpc = "idle"

\* Runs that differ in the folder they are given.
InitBatch ==
    /\ folder \in Folders(MaxFiles)
    /\ recursive \in BOOLEAN /\ tile \in BOOLEAN
    /\ input_dir = "dir" /\ color = "#FFFFFF" /\ stroke_color = None
    /\ rel_size = None /\ font_size = None /\ stroke_width = 0 /\ probe_w = 400
    /\ opacity = 350 /\ tile_opacity = None
    /\ TileArgsDefault

\* Runs that differ in the validity of their configuration.
InitConfig ==
    /\ folder \in Folders(1)
    /\ recursive = FALSE /\ tile \in BOOLEAN
    /\ input_dir \in {"missing", "file", "dir"}
    /\ color \in {"#FFFFFF", "red", "notacolor"}
    /\ stroke_color \in {None, Some(""), Some("black"), Some("notacolor")}
    /\ rel_size \in {None, Some(-250), Some(0), Some(250)}
    /\ font_size = None /\ stroke_width = 0 /\ probe_w = 400
    /\ opacity = 350 /\ tile_opacity = None
    /\ tile_spacing \in {-1, 0, 64}
    /\ tile_spacing_x \in {None, Some(-1), Some(0)}
    /\ tile_spacing_y \in {None, Some(-1), Some(0)}
    /\ tile_offset_x = 0 /\ tile_offset_y = 0

\* Runs that differ in how the text is sized and coloured.
InitStyle ==
    /\ folder \in {<<E_jpg>>, <<E_webp_bad, E_jpg>>}
    /\ recursive = FALSE /\ tile \in BOOLEAN
    /\ input_dir = "dir" /\ color \in {"#FFFFFF", "red"}
    /\ stroke_color \in {None, Some("black"), Some("red")}
    /\ stroke_width \in {0, 2}
    /\ rel_size \in {None, Some(250), Some(500)}
    /\ font_size \in {None, Some(24), Some(50)}
    /\ probe_w \in {0, 400}
    /\ opacity \in {350, 35000}
    /\ tile_opacity \in {None, Some(900), Some(350)}
    /\ TileArgsDefault

\* Runs that differ in the opacity values they parse.
InitOpacity ==
    /\ folder = <<E_jpg>>
    /\ recursive = FALSE /\ tile = TRUE
    /\ input_dir = "dir" /\ color = "#FFFFFF" /\ stroke_color = None
    /\ rel_size = None /\ font_size = None /\ stroke_width = 0 /\ probe_w = 400
    /\ opacity \in OpacityValues
    /\ tile_opacity \in {None, Some(100 * opacity), Some(opacity)}
    /\ TileArgsDefault

InitMain ==
    /\ RunStart
    /\ PosIdle
    /\ TileLoopIdle
    /\ (InitBatch \/ InitConfig \/ InitStyle \/ InitOpacity)

SpecMain == InitMain /\ [][NextMain]_vars

(***************************************************************************)
(* The tiling branch of process_image (batch.py 243-271).                  *)
(***************************************************************************)
\* build_text_tile (149-155), for angle 0: the size of the tile built around a
\* text whose bounding box is bw x bh.
tile_size(bw, bh, sw) ==
    LET w   == Max(1, bw)
        h   == Max(1, bh)
        pad == Max(2, sw + 2)
    IN <<w + 2 * pad, h + 2 * pad>>

\* A step that is not floored at 1 (used to test the claims below).
step_size_NoFloor(t, spacing_axis, spacing) ==
    t + (IF spacing_axis # None THEN Val(spacing_axis) ELSE spacing)

\* 256-257: max(1, t + (spacing_axis if spacing_axis is not None else spacing))
step_size(t, spacing_axis, spacing) ==
    Max(1, t + (IF spacing_axis # None THEN Val(spacing_axis) ELSE spacing))

\* 262-263: ((-t + offset) // s) * s
start_coord(t, offset, s) == FloorDiv(-t + offset, s) * s

\* paste_rgba_clip (116-127): the overlay after pasting a tw x th tile at (px, py)
\* on a W x H canvas.  The overlay is the set of rectangles <<x0, y0, x1, y1>>
\* pasted so far.
paste_rgba_clip(base, tw, th, W, H, px, py) ==
    LET x0 == Max(px, 0)
        y0 == Max(py, 0)
        x1 == Min(px + tw, W)
        y1 == Min(py + th, H)
    IN IF x0 >= x1 \/ y0 >= y1 THEN base
       ELSE base \cup {<<x0, y0, x1, y1>>}

tileFrame == <<posVars, opVars, argVars, runVars, jobVars,
               tile_spacing, tile_spacing_x, tile_spacing_y,
               tile_offset_x, tile_offset_y, canvas>>

\* 245-254
BuildTile ==
    /\ tpc = "build"
    /\ tsize' = tile_size(text_w, text_h, stroke_width)
    /\ tpc' = "steps"
    /\ UNCHANGED <<tileFrame, step, start, x, y, overlay, pastes>>

\* 256-265
ComputeSteps ==
    /\ tpc = "steps"
    /\ LET sx == step_size(tsize[1], tile_spacing_x, tile_spacing)
           sy == step_size(tsize[2], tile_spacing_y, tile_spacing)
       IN /\ step' = <<sx, sy>>
          /\ IF sx = 0 \/ sy = 0
             THEN \* integer division by zero raises
                  /\ start' = start /\ y' = y /\ tpc' = "ZeroDivisionError"
             ELSE /\ start' = <<start_coord(tsize[1], tile_offset_x, sx),
                                start_coord(tsize[2], tile_offset_y, sy)>>
                  /\ y' = start_coord(tsize[2], tile_offset_y, sy)
                  /\ tpc' = "outer"
    /\ UNCHANGED <<tileFrame, tsize, x, overlay, pastes>>

\* 266-267: the test of the outer while, and x = start_x.
OuterTest ==
    /\ tpc = "outer"
    /\ IF y < canvas[2] THEN /\ x' = start[1] /\ tpc' = "inner"
                        ELSE /\ x' = x /\ tpc' = "done"
    /\ UNCHANGED <<tileFrame, tsize, step, start, y, overlay, pastes>>

\* 268-270: one iteration of the inner while.
InnerPaste ==
    /\ tpc = "inner"
    /\ x < canvas[1]
    /\ overlay' = paste_rgba_clip(overlay, tsize[1], tsize[2], canvas[1], canvas[2], x, y)
    /\ pastes' = pastes + 1
    /\ x' = x + step[1]
    /\ UNCHANGED <<tileFrame, tsize, step, start, y, tpc>>

\* 268, 271: the inner while ends, and y += sy.
NextRow ==
    /\ tpc = "inner"
    /\ x >= canvas[1]
    /\ y' = y + step[2]
    /\ tpc' = "outer"
    /\ UNCHANGED <<tileFrame, tsize, step, start, x, overlay, pastes>>

NextTile == BuildTile \/ ComputeSteps \/ OuterTest \/ InnerPaste \/ NextRow

\* The inputs of the tiling specification.
Spacings == {-6, 0, 2}
OffsetsX == {-11, 0, 3, 10}
OffsetsY == {-1, 10}

InitTile ==
    /\ MainIdle
    /\ img_w = 0 /\ img_h = 0 /\ pos = <<>> /\ margin = 0 /\ xy = NoResult
    /\ text_w \in 0..MaxBox /\ text_h \in 0..MaxBox
    /\ tile_spacing \in Spacings
    /\ tile_spacing_x \in {None, Some(-5)}
    /\ tile_spacing_y \in {None, Some(1)}
    /\ tile_offset_x \in OffsetsX /\ tile_offset_y \in OffsetsY
    /\ canvas \in (1..MaxCanvas) \X (1..MaxCanvas)
    /\ tsize = <<0, 0>> /\ step = <<0, 0>> /\ start = <<0, 0>>
    /\ x = 0 /\ y = 0 /\ overlay = {} /\ pastes = 0 /\ tpc = "build"

SpecTile == InitTile /\ [][NextTile]_vars /\ WF_vars(NextTile)

(***************************************************************************)
(* The claims.                                                             *)
(***************************************************************************)
Called == xy # NoResult

\* C1, as stated: for every image size, text box size, margin and keyword the
\* coordinate position_xy returns satisfies 0 <= x <= img_w - text_w and
\* 0 <= y <= img_h - text_h, also when the text box is larger than the canvas.
C1_Original ==
    Called => /\ 0 <= xy[1] /\ xy[1] <= img_w - text_w
              /\ 0 <= xy[2] /\ xy[2] <= img_h - text_h

\* C1, amended: the coordinate is never negative; on an axis where the text box
\* fits it is at most image side minus text side, whatever the margin; on an axis
\* where the text box is larger than the canvas it is 0.
C1_Clamped ==
    Called => /\ xy[1] >= 0 /\ xy[2] >= 0
              /\ (text_w <= img_w => xy[1] <= img_w - text_w)
              /\ (text_h <= img_h => xy[2] <= img_h - text_h)
              /\ (text_w > img_w => xy[1] = 0)
              /\ (text_h > img_h => xy[2] = 0)

\* An oversized text box on one axis and a margin larger than the room on the other.
C1_Witness ==
    /\ Called
    /\ text_w > img_w /\ text_h < img_h /\ margin > img_h - text_h
    /\ pos = K_top_left
    /\ xy = <<0, img_h - text_h>>

Rendered == font # NoFont

\* C2: the font size process_image uses is the fixed size if given, else the one
\* computed from the relative fraction if given, else 48.
C2_FixedSizeWins ==
    Rendered =>
      font.size = IF font_size # None THEN Val(font_size)
                  ELSE IF rel_size # None
                       THEN compute_font_for_relative_width(
                                Val(rel_size), folder[src].width, probe_w)
                       ELSE 48

\* C10: in tiled mode the fill and stroke alpha are the tile opacity when it is
\* given and the base opacity otherwise; in anchored mode they are the base opacity.
C10_TileOpacityOnlyTiled ==
    Rendered =>
      LET expected == IF layer = "tiled" /\ tile_alpha # None THEN Val(tile_alpha)
                                                              ELSE Val(alpha)
      IN /\ fill_rgba[4] = expected
         /\ stroke_rgba # None => stroke_rgba[4] = expected

\* The entries with a recognised extension, by kind.
RecognizedFiles == {E_jpg, E_PNG_bad, E_webp_bad}
Idx(S) == {i \in 1..Len(folder) : folder[i] \in S}
AttemptedSet == {attempted[i] : i \in 1..Len(attempted)}

\* C5, as stated: over a folder of N recognised and M unrecognised files the run
\* attempts exactly the N recognised files and reports success count N.
C5_Original ==
    (pc = "done" /\ \A i \in 1..Len(folder) : folder[i].is_file) =>
      /\ AttemptedSet = Idx(RecognizedFiles)
      /\ processed = Cardinality(Idx(RecognizedFiles))

\* C5, amended: the run attempts, once each and in listing order, exactly the
\* recognised files (and, when recursive, the directories with a recognised
\* extension), never an entry with an unrecognised extension; a failure is logged
\* and the later entries are still attempted; the run ends with status 0 and
\* the count it reports is the number of attempted entries that did not fail.
C5_BatchIsolation ==
    /\ \A i \in AttemptedSet : folder[i] # E_txt
    /\ \A i, j \in 1..Len(attempted) : i < j => attempted[i] < attempted[j]
    /\ pc = "exited" => attempted = <<>>
    /\ pc = "done" =>
         /\ AttemptedSet = Idx(RecognizedFiles) \cup
                           (IF recursive THEN Idx({E_dir_jpeg}) ELSE {})
         /\ failed = Idx({E_PNG_bad, E_webp_bad}) \cup
                     (IF recursive THEN Idx({E_dir_jpeg}) ELSE {})
         /\ saved = Idx({E_jpg})
         /\ processed = Cardinality(Idx({E_jpg}))
         /\ exit_code = Some(0)
         /\ report = IF processed = 0 THEN [kind |-> "warn", n |-> 0]
                                      ELSE [kind |-> "done", n |-> processed]

\* A finished run in which a file failed, an unrecognised file was skipped and a
\* later file was still processed.
C5_Witness ==
    /\ pc = "done"
    /\ \E i, j, k \in 1..Len(folder) :
          /\ i < j /\ j < k
          /\ folder[i] = E_PNG_bad /\ i \in failed
          /\ folder[j] = E_txt
          /\ folder[k] = E_jpg /\ k \in saved
    /\ processed = 1

NegativeSpacing ==
    \/ tile_spacing < 0
    \/ (tile_spacing_x # None /\ Val(tile_spacing_x) < 0)
    \/ (tile_spacing_y # None /\ Val(tile_spacing_y) < 0)

NothingDone == opened = {} /\ saved = {} /\ attempted = <<>>

BeforeLoop == pc \in {"check_input", "parse_color", "parse_stroke", "parse_opacity",
                      "parse_tile_opacity", "check_rel", "check_spacing", "exited"}

\* C6, as stated: a missing or non-directory input, an unparseable colour or
\* stroke colour, a relative size <= 0 or a negative tile spacing (tiled mode or
\* not) makes main exit non-zero before any image is opened or written.
C6_Original ==
    (\/ input_dir # "dir"
     \/ color = "notacolor"
     \/ stroke_color \in {Some(""), Some("notacolor")}
     \/ (rel_size # None /\ Val(rel_size) <= 0)
     \/ NegativeSpacing)
    => /\ NothingDone /\ BeforeLoop
       /\ pc = "exited" => exit_code = Some(1)

\* C6, amended: the same for a missing or non-directory input, an unparseable
\* colour, an unparseable non-empty stroke colour, a relative size <= 0, and a
\* negative tile spacing when tiled mode is selected.
C6_FatalConfigExits ==
    (\/ input_dir # "dir"
     \/ color = "notacolor"
     \/ stroke_color = Some("notacolor")
     \/ (rel_size # None /\ Val(rel_size) <= 0)
     \/ (tile /\ NegativeSpacing))
    => /\ NothingDone /\ BeforeLoop
       /\ exit_code # Some(0)
       /\ pc = "exited" => exit_code = Some(1)

\* An exit forced by a negative vertical spacing alone, in tiled mode, with an
\* image waiting in the folder.
C6_Witness ==
    /\ pc = "exited" /\ exit_code = Some(1)
    /\ tile /\ tile_spacing_y = Some(-1) /\ tile_spacing = 64 /\ tile_spacing_x = None
    /\ input_dir = "dir" /\ color = "red" /\ stroke_color = Some("")
    /\ rel_size = Some(250)
    /\ folder = <<E_jpg>> /\ NothingDone

IsFraction == 0 <= opacity /\ opacity <= 1000
BothParsed == alpha # None /\ tile_alpha # None

InByteRange ==
    /\ alpha # None => Val(alpha) \in 0..255
    /\ tile_alpha # None => Val(tile_alpha) \in 0..255
    /\ (alpha # None /\ opacity < 0) => Val(alpha) = 0
    /\ (alpha # None /\ opacity > 100000) => Val(alpha) = 255
    /\ (alpha # None /\ opacity = 1000) => Val(alpha) = 255
    /\ (alpha # None /\ opacity \in {350, 35000}) => Val(alpha) = 89

\* C7, as stated: a fraction f in [0, 1] and the percentage 100 * f parse to the
\* same alpha; 1.0 parses to 255; every value parses to an integer in 0..255.
C7_Original ==
    /\ InByteRange
    /\ (BothParsed /\ IsFraction /\ tile_opacity = Some(100 * opacity))
          => Val(alpha) = Val(tile_alpha)

\* C7, amended: a fraction f and the percentage 100 * f parse to the same alpha
\* when f = 0 or 100 * f > 1; for 0 < f <= 0.01 the value 100 * f is itself read
\* as a fraction and parses to round(100 * f * 255) (0.01 gives 3, 1 gives 255);
\* 1.0 parses to 255; every value parses to an integer in 0..255.
C7_OpacityParsing ==
    /\ InByteRange
    /\ (BothParsed /\ IsFraction /\ tile_opacity = Some(100 * opacity)) =>
          IF opacity = 0 \/ opacity > 10
          THEN Val(alpha) = Val(tile_alpha)
          ELSE LET d == 1000 * Val(tile_alpha) - 255 * (100 * opacity)
               IN /\ -500 <= d /\ d <= 500
                  /\ opacity = 10 => (Val(alpha) = 3 /\ Val(tile_alpha) = 255)

\* 0.35 and 35, both parsed to 89.
C7_Witness ==
    /\ opacity = 350 /\ tile_opacity = Some(35000)
    /\ alpha = Some(89) /\ tile_alpha = Some(89)

\* C8: at most one image handle is open at any time, only while the file it
\* belongs to is inside the with block; it is released when that file ends, with
\* or without an exception, before the next file is opened and before the run ends.
C8_OneHandle ==
    /\ Cardinality(open_handles) <= 1
    /\ open_handles \subseteq (IF pc \in {"with_body", "with_exit"} THEN {src} ELSE {})
    /\ pc = "with_body" => open_handles = {src}

\* An exception raised after the image was opened, its handle released, and
\* another file still to come.
C8_Witness ==
    /\ pc = "except" /\ src \in opened /\ open_handles = {}
    /\ src < Len(folder) /\ folder[src + 1] = E_jpg

Stepped == tpc \in {"outer", "inner", "done"}

Covered(px, py) ==
    \E r \in overlay : r[1] <= px /\ px < r[3] /\ r[2] <= py /\ py < r[4]

\* C3: for non-negative spacings the grid starts at x <= 0 and y <= 0 whatever
\* the offsets, and with spacing 0 every canvas pixel lies inside some pasted tile.
C3_GridReachesEdges ==
    ~NegativeSpacing =>
    /\ Stepped => (start[1] <= 0 /\ start[2] <= 0)
    /\ (tpc = "done" /\ step = tsize) =>
          \A px \in 0..(canvas[1] - 1), py \in 0..(canvas[2] - 1) : Covered(px, py)

\* C4: the steps are at least 1, x and y strictly increase from one iteration to
\* the next, the number of paste calls is bounded by the distance from the start
\* to the canvas edges, and the loops end.
C4_TilingTerminates ==
    /\ [](Stepped => (step[1] >= 1 /\ step[2] >= 1))
    /\ [](Stepped => pastes <= Max(0, canvas[1] - start[1]) * Max(0, canvas[2] - start[2]))
    /\ [][(tpc = "inner" /\ tpc' = "inner") => (x' > x /\ y' = y)]_vars
    /\ [][(tpc = "inner" /\ tpc' = "outer") => (y' > y)]_vars
    /\ <>(tpc = "done")

\* A finished tiling whose tile dimension plus spacing was negative on both axes.
C4_Witness ==
    /\ tpc = "done" /\ pastes > 0
    /\ tile_spacing_x = None /\ tile_spacing_y = None
    /\ tsize[1] + tile_spacing < 0 /\ tsize[2] + tile_spacing < 0
    /\ step = <<1, 1>>

====
